---------------------------- MODULE Spec2Model ----------------------------
(***************************************************************************)
(* Model of api/claude.js: the complaint-analysis endpoint.                *)
(*                                                                         *)
(*   extractJSON       the regular-expression span selection followed by   *)
(*                     JSON.parse                                          *)
(*   normalizeResults  the per-element coercion of the parsed array        *)
(*   POST /analyze-complaints  the async handler: validation, the single   *)
(*                     awaited provider call, and the continuation         *)
(*                                                                         *)
(* Texts are TLA+ strings read character by character.  JavaScript values  *)
(* are records [t |-> type tag, v |-> payload]; an object's payload is the *)
(* sequence of its <<key, value>> pairs in insertion order.  Numbers are   *)
(* integers: the drawn texts hold no fraction or exponent.                 *)
(***************************************************************************)
EXTENDS Integers, Sequences, FiniteSets

VARIABLES
  extPc, extText, extResult,            \* extractJSON applied to one input
  normPc, normRaw, normBatch, normOut,  \* normalizeResults applied to one input
  CLAUDE_API_KEY,                       \* whether the credential is configured
  pc, complaints, limitedComplaints,    \* per request: position and locals
  providerCalls, outcome, responses     \* per request: calls made, settlement, responses sent

extVars  == <<extPc, extText, extResult>>
normVars == <<normPc, normRaw, normBatch, normOut>>
reqVars  == <<CLAUDE_API_KEY, pc, complaints, limitedComplaints,
              providerCalls, outcome, responses>>
vars     == <<extVars, normVars, reqVars>>

---------------------------------------------------------------------------
(* Bounds of the model *)

MaxTextLen == 5      \* extractJSON: every text over TextAlphabet up to this length
MaxRaw == 2          \* normalizeResults: parsed arrays up to this length
NumRequests == 2     \* requests in flight

(* Constants of the program *)

BatchCap == 50
IssueCap == 10
ExcerptLen == 1000
ScoreMin == 0
ScoreMax == 100

Min(a, b) == IF a < b THEN a ELSE b
Max(a, b) == IF a > b THEN a ELSE b

---------------------------------------------------------------------------
(* JavaScript values *)

Undef   == [t |-> "undefined", v |-> 0]
Null    == [t |-> "null", v |-> 0]
Num(n)  == [t |-> "number", v |-> n]
Str(s)  == [t |-> "string", v |-> s]
Bool(b) == [t |-> "boolean", v |-> b]
Arr(q)  == [t |-> "array", v |-> q]
Obj(p)  == [t |-> "object", v |-> p]

IsStr(x) == x.t = "string"
IsNum(x) == x.t = "number"
IsArr(x) == x.t = "array"
IsObj(x) == x.t = "object"
IsNullish(x) == x.t \in {"undefined", "null"}

\* ToBoolean: what `a || b` and `!a` test
Truthy(x) ==
  CASE x.t = "undefined" -> FALSE
    [] x.t = "null"      -> FALSE
    [] x.t = "number"    -> x.v # 0
    [] x.t = "string"    -> x.v # ""
    [] x.t = "boolean"   -> x.v
    [] OTHER             -> TRUE

\* a || b
Or(a, b) == IF Truthy(a) THEN a ELSE b

HasKey(p, k) == \E i \in 1..Len(p) : p[i][1] = k

\* x.k for a value that is not undefined or null: an object's own property;
\* numbers, strings, booleans and arrays have none of the names read here
Get(x, k) ==
  IF IsObj(x) /\ HasKey(x.v, k)
  THEN x.v[CHOOSE i \in 1..Len(x.v) : x.v[i][1] = k][2]
  ELSE Undef

\* defining a property: a repeated key keeps its place and takes the new value
Put(p, k, val) ==
  IF HasKey(p, k)
  THEN [i \in 1..Len(p) |-> IF p[i][1] = k THEN <<k, val>> ELSE p[i]]
  ELSE Append(p, <<k, val>>)

---------------------------------------------------------------------------
(* Characters and strings *)

CharAt(s, i) == IF i >= 1 /\ i <= Len(s) THEN SubSeq(s, i, i) ELSE ""

IsWS(c) == c \in {" ", "\n", "\t", "\r"}
IsDigit(c) == c \in {"0", "1", "2", "3", "4", "5", "6", "7", "8", "9"}

DigitVal(c) ==
  CASE c = "0" -> 0 [] c = "1" -> 1 [] c = "2" -> 2 [] c = "3" -> 3
    [] c = "4" -> 4 [] c = "5" -> 5 [] c = "6" -> 6 [] c = "7" -> 7
    [] c = "8" -> 8 [] c = "9" -> 9

DigitChar(d) ==
  CASE d = 0 -> "0" [] d = 1 -> "1" [] d = 2 -> "2" [] d = 3 -> "3"
    [] d = 4 -> "4" [] d = 5 -> "5" [] d = 6 -> "6" [] d = 7 -> "7"
    [] d = 8 -> "8" [] d = 9 -> "9"

LowerChar(c) ==
  CASE c = "A" -> "a" [] c = "B" -> "b" [] c = "C" -> "c" [] c = "D" -> "d"
    [] c = "E" -> "e" [] c = "F" -> "f" [] c = "G" -> "g" [] c = "H" -> "h"
    [] c = "I" -> "i" [] c = "J" -> "j" [] c = "K" -> "k" [] c = "L" -> "l"
    [] c = "M" -> "m" [] c = "N" -> "n" [] c = "O" -> "o" [] c = "P" -> "p"
    [] c = "Q" -> "q" [] c = "R" -> "r" [] c = "S" -> "s" [] c = "T" -> "t"
    [] c = "U" -> "u" [] c = "V" -> "v" [] c = "W" -> "w" [] c = "X" -> "x"
    [] c = "Y" -> "y" [] c = "Z" -> "z" [] OTHER -> c

RECURSIVE ToLowerCase(_)
ToLowerCase(s) ==
  IF s = "" THEN ""
  ELSE LowerChar(SubSeq(s, 1, 1)) \o ToLowerCase(SubSeq(s, 2, Len(s)))

RECURSIVE NatToString(_)
NatToString(n) ==
  IF n < 10 THEN DigitChar(n) ELSE NatToString(n \div 10) \o DigitChar(n % 10)

IntToString(n) == IF n < 0 THEN "-" \o NatToString(0 - n) ELSE NatToString(n)

\* the string made of the characters of a sequence of one-character strings
RECURSIVE Join(_)
Join(q) == IF q = <<>> THEN "" ELSE Head(q) \o Join(Tail(q))

RECURSIVE Repeat(_, _)
Repeat(s, n) ==
  IF n = 0 THEN ""
  ELSE LET h == Repeat(s, n \div 2) IN h \o h \o (IF n % 2 = 1 THEN s ELSE "")

\* s.slice(0, n) and a.slice(0, n)
SliceTo(s, n) == SubSeq(s, 1, Min(n, Len(s)))

---------------------------------------------------------------------------
(* JSON.parse: [ok, val, pos]; ok = FALSE is the SyntaxError *)

Fail == [ok |-> FALSE, val |-> Undef, pos |-> 0]
Done(val, pos) == [ok |-> TRUE, val |-> val, pos |-> pos]

RECURSIVE SkipWS(_, _)
SkipWS(s, i) == IF IsWS(CharAt(s, i)) THEN SkipWS(s, i + 1) ELSE i

Lit(s, i, w) == i + Len(w) - 1 <= Len(s) /\ SubSeq(s, i, i + Len(w) - 1) = w

Unescape(e) ==
  CASE e = "n" -> "\n" [] e = "t" -> "\t" [] e = "r" -> "\r" [] OTHER -> e

\* after the opening quote: up to the closing quote
RECURSIVE ScanString(_, _, _)
ScanString(s, i, acc) ==
  LET c == CharAt(s, i) IN
  CASE c = ""   -> Fail
    [] c = "\"" -> Done(Str(acc), i + 1)
    [] c = "\\" -> IF CharAt(s, i + 1) \in {"\"", "\\", "/", "n", "t", "r"}
                   THEN ScanString(s, i + 2, acc \o Unescape(CharAt(s, i + 1)))
                   ELSE Fail
    [] c \in {"\n", "\t", "\r"} -> Fail
    [] OTHER    -> ScanString(s, i + 1, acc \o c)

RECURSIVE ScanDigits(_, _, _)
ScanDigits(s, i, acc) ==
  IF IsDigit(CharAt(s, i))
  THEN ScanDigits(s, i + 1, acc * 10 + DigitVal(CharAt(s, i)))
  ELSE [val |-> acc, pos |-> i]

\* -? (0 | [1-9][0-9]*)
ParseNumber(s, i) ==
  LET neg == CharAt(s, i) = "-"
      j   == IF neg THEN i + 1 ELSE i
      d   == CharAt(s, j)
      r   == IF d = "0" THEN [val |-> 0, pos |-> j + 1] ELSE ScanDigits(s, j, 0)
  IN  IF ~IsDigit(d) \/ CharAt(s, r.pos) \in {".", "e", "E"} THEN Fail
      ELSE Done(Num(IF neg THEN 0 - r.val ELSE r.val), r.pos)

RECURSIVE ParseValue(_, _), ParseElements(_, _, _), ParseMembers(_, _, _)
ParseValue(s, i0) ==
  LET i == SkipWS(s, i0)
      c == CharAt(s, i)
  IN  CASE c = "[" ->
             IF CharAt(s, SkipWS(s, i + 1)) = "]"
             THEN Done(Arr(<<>>), SkipWS(s, i + 1) + 1)
             ELSE ParseElements(s, i + 1, <<>>)
        [] c = "{" ->
             IF CharAt(s, SkipWS(s, i + 1)) = "}"
             THEN Done(Obj(<<>>), SkipWS(s, i + 1) + 1)
             ELSE ParseMembers(s, i + 1, <<>>)
        [] c = "\"" -> ScanString(s, i + 1, "")
        [] c = "-" \/ IsDigit(c) -> ParseNumber(s, i)
        [] Lit(s, i, "true")  -> Done(Bool(TRUE), i + 4)
        [] Lit(s, i, "false") -> Done(Bool(FALSE), i + 5)
        [] Lit(s, i, "null")  -> Done(Null, i + 4)
        [] OTHER -> Fail

ParseElements(s, i, acc) ==
  LET r == ParseValue(s, i) IN
  IF ~r.ok THEN Fail
  ELSE LET j == SkipWS(s, r.pos)
           c == CharAt(s, j)
       IN  CASE c = "," -> ParseElements(s, j + 1, Append(acc, r.val))
             [] c = "]" -> Done(Arr(Append(acc, r.val)), j + 1)
             [] OTHER   -> Fail

ParseMembers(s, i, acc) ==
  LET k == SkipWS(s, i) IN
  IF CharAt(s, k) # "\"" THEN Fail
  ELSE LET key == ScanString(s, k + 1, "") IN
       IF ~key.ok THEN Fail
       ELSE LET col == SkipWS(s, key.pos) IN
            IF CharAt(s, col) # ":" THEN Fail
            ELSE LET r == ParseValue(s, col + 1) IN
                 IF ~r.ok THEN Fail
                 ELSE LET j == SkipWS(s, r.pos)
                          c == CharAt(s, j)
                          p == Put(acc, key.val.v, r.val)
                      IN  CASE c = "," -> ParseMembers(s, j + 1, p)
                            [] c = "}" -> Done(Obj(p), j + 1)
                            [] OTHER   -> Fail

\* the whole text must be one value, surrounded by white space only
JSONParse(s) ==
  LET r == ParseValue(s, 1) IN
  IF r.ok /\ SkipWS(s, r.pos) = Len(s) + 1 THEN r ELSE Fail

---------------------------------------------------------------------------
(* extractJSON *)

\* the last index of character c in s, 0 when there is none
LastIndexOf(s, c) ==
  IF \E i \in 1..Len(s) : CharAt(s, i) = c
  THEN CHOOSE i \in 1..Len(s) :
         CharAt(s, i) = c /\ \A j \in (i + 1)..Len(s) : CharAt(s, j) # c
  ELSE 0

\* the end of the match of /\{[\s\S]*\}|\[[\s\S]*\]/ anchored at p, 0 when
\* neither alternative matches there: the star is greedy and backtracks to
\* the last closing bracket of the opening bracket's kind
MatchEndLazy(s, p) ==
  LET c == CharAt(s, p)
      close == IF c = "{" THEN "}" ELSE "]"
  IN  IF c \in {"{", "["} /\ \E q \in (p + 1)..Len(s) : CharAt(s, q) = close
      THEN CHOOSE q \in (p + 1)..Len(s) :
             CharAt(s, q) = close /\ \A j \in (p + 1)..(q - 1) : CharAt(s, j) # close
      ELSE 0

MatchEnd(s, p) ==
  LET c == CharAt(s, p) IN
  CASE c = "{" -> IF LastIndexOf(s, "}") > p THEN LastIndexOf(s, "}") ELSE 0
    [] c = "[" -> IF LastIndexOf(s, "]") > p THEN LastIndexOf(s, "]") ELSE 0
    [] OTHER   -> 0

\* text.match(re): the match at the leftmost position that has one
Match(s) ==
  IF \E p \in 1..Len(s) : MatchEnd(s, p) # 0
  THEN LET p == CHOOSE p \in 1..Len(s) :
                  MatchEnd(s, p) # 0 /\ \A j \in 1..(p - 1) : MatchEnd(s, j) = 0
       IN  [found |-> TRUE, from |-> p, to |-> MatchEnd(s, p)]
  ELSE [found |-> FALSE, from |-> 0, to |-> 0]

extractJSON(text) ==
  IF ~IsStr(text) THEN Null
  ELSE LET m == Match(text.v) IN
       IF ~m.found THEN Null
       ELSE LET r == JSONParse(SubSeq(text.v, m.from, m.to)) IN
            IF r.ok THEN r.val ELSE Null

---------------------------------------------------------------------------
(* normalizeResults *)

allowedPriorities == {"urgent", "medium", "low"}

\* x.toString() raises a TypeError when x is an object whose own property
\* "toString" shadows the method (no JSON value is callable), also when an
\* array's join reaches such an element
RECURSIVE ToStringThrows(_)
ToStringThrows(x) ==
  \/ IsObj(x) /\ HasKey(x.v, "toString")
  \/ IsArr(x) /\ \E i \in 1..Len(x.v) : ToStringThrows(x.v[i])

RECURSIVE toString(_), JoinComma(_)
toString(x) ==
  CASE x.t = "string"  -> x.v
    [] x.t = "number"  -> IntToString(x.v)
    [] x.t = "boolean" -> IF x.v THEN "true" ELSE "false"
    [] x.t = "array"   -> JoinComma(x.v)
    [] x.t = "object"  -> "[object Object]"

\* Array.prototype.join: undefined and null elements read as ""
JoinComma(q) ==
  IF q = <<>> THEN ""
  ELSE (IF IsNullish(q[1]) THEN "" ELSE toString(q[1]))
       \o (IF Len(q) > 1 THEN "," \o JoinComma(Tail(q)) ELSE "")

\* priority without the lower-casing
NormPriorityCaseSensitive(item) ==
  LET priority == toString(Or(Get(item, "priority"), Str("")))
  IN  Str(IF priority \in allowedPriorities THEN priority ELSE "medium")

NormPriority(item) ==
  LET priority == ToLowerCase(toString(Or(Get(item, "priority"), Str(""))))
  IN  Str(IF priority \in allowedPriorities THEN priority ELSE "medium")

NormSummary(item) == Or(Get(item, "summary"), Str(""))

\* the score clamped from above only
NormRiskScoreNoFloor(item) ==
  LET x == Get(item, "risk_score")
  IN  IF IsNum(x) THEN Num(Min(ScoreMax, x.v)) ELSE Null

NormRiskScore(item) ==
  LET x == Get(item, "risk_score")
  IN  IF IsNum(x) THEN Num(Min(ScoreMax, Max(ScoreMin, x.v))) ELSE Null

NormIssue(issue) ==
  [ text          |-> Or(Get(issue, "text"), Str("")),
    rationale     |-> Or(Or(Get(issue, "rationale"), Get(issue, "reason")), Str("")),
    risk_category |-> Or(Or(Get(issue, "risk_category"), Get(issue, "category")), Null) ]

NormIssues(item) ==
  LET x == Get(item, "issues")
  IN  IF IsArr(x)
      THEN [i \in 1..Len(SliceTo(x.v, IssueCap)) |-> NormIssue(SliceTo(x.v, IssueCap)[i])]
      ELSE <<>>

\* originalComplaints[idx] || {}   (idx counts from 0)
BaseOf(originalComplaints, idx) ==
  Or(IF idx + 1 <= Len(originalComplaints) THEN originalComplaints[idx + 1] ELSE Undef,
     Obj(<<>>))

NormId(item, idx, originalComplaints) ==
  LET base == BaseOf(originalComplaints, idx)
  IN  Or(Or(Or(Get(item, "id"), Get(base, "id")), Get(base, "complaintId")),
         Str("row-" \o IntToString(idx)))

\* the TypeErrors of the map callback: a property read of undefined or null
\* (the element, or one of the first IssueCap issues), and the toString call
ItemThrows(item) ==
  \/ IsNullish(item)
  \/ ToStringThrows(Or(Get(item, "priority"), Str("")))
  \/ /\ IsArr(Get(item, "issues"))
     /\ \E i \in 1..Len(SliceTo(Get(item, "issues").v, IssueCap)) :
          IsNullish(Get(item, "issues").v[i])

NormItem(item, idx, originalComplaints) ==
  [ id         |-> NormId(item, idx, originalComplaints),
    priority   |-> NormPriority(item),
    summary    |-> NormSummary(item),
    risk_score |-> NormRiskScore(item),
    issues     |-> NormIssues(item),
    raw        |-> item ]

Returned(out) == [threw |-> FALSE, out |-> out]
Thrown == [threw |-> TRUE, out |-> <<>>]

\* one result per row of the batch, whatever the parsed array holds
normalizeResultsPerInputRow(raw, originalComplaints) ==
  IF ~IsArr(raw) THEN Returned(<<>>)
  ELSE Returned([i \in 1..Len(originalComplaints) |->
         NormItem(IF i <= Len(raw.v) /\ ~ItemThrows(raw.v[i]) THEN raw.v[i] ELSE Obj(<<>>),
                  i - 1, originalComplaints)])

normalizeResults(raw, originalComplaints) ==
  IF ~IsArr(raw) THEN Returned(<<>>)
  ELSE IF \E i \in 1..Len(raw.v) : ItemThrows(raw.v[i]) THEN Thrown
  ELSE Returned([i \in 1..Len(raw.v) |-> NormItem(raw.v[i], i - 1, originalComplaints)])

---------------------------------------------------------------------------
(* Specification of extractJSON applied to one input *)

TextAlphabet == {"[", "]", "{", "}", "1", "a"}

\* the fence of the documented example is written ~~~ (any character that
\* is neither a bracket nor white space reads the same)
FencedText == "Here is the result:\n~~~json\n[{\"id\":\"a\"}]\n~~~"

LongTexts ==
  { FencedText,
    "no json here",
    "[{\"id\":\"a\",\"priority\":\"low\"}]",
    "  [ 1 , \"x]\" , null ]  ",
    "Example {\"a\":1} then [{\"id\":\"a\"}]",
    "Found [2] rows: [{\"id\":\"a\"},{\"id\":\"b\"}]",
    "{\"results\":[1,2]} (see [1])" }

\* arguments that are not strings
NonTexts == {Undef, Null, Num(5), Arr(<<>>)}

ExtIdle == extPc = "idle" /\ extText = Undef /\ extResult = Undef
NormIdle == normPc = "idle" /\ normRaw = Undef /\ normBatch = <<>> /\ normOut = Undef

Requests == 1..NumRequests

ReqIdle ==
  /\ CLAUDE_API_KEY = FALSE
  /\ pc = [r \in Requests |-> "off"]
  /\ complaints = [r \in Requests |-> Undef]
  /\ limitedComplaints = [r \in Requests |-> <<>>]
  /\ providerCalls = [r \in Requests |-> 0]
  /\ outcome = [r \in Requests |-> [kind |-> "none"]]
  /\ responses = [r \in Requests |-> <<>>]

ExtInit ==
  /\ extPc = "start"
  /\ \/ extText \in NonTexts
     \/ \E t \in LongTexts : extText = Str(t)
     \/ \E n \in 0..MaxTextLen : \E q \in [1..n -> TextAlphabet] : extText = Str(Join(q))
  /\ extResult = Undef
  /\ NormIdle
  /\ ReqIdle

ExtractStep ==
  /\ extPc = "start"
  /\ extPc' = "done"
  /\ extResult' = extractJSON(extText)
  /\ UNCHANGED <<extText, normVars, reqVars>>

ExtNext == ExtractStep

SpecExtract == ExtInit /\ [][ExtNext]_vars

---------------------------------------------------------------------------
(* Specification of normalizeResults applied to one input *)

\* an own property, left out when the value is undefined
Field(k, x) == IF x.t = "undefined" THEN <<>> ELSE << <<k, x>> >>

MkItem(id, priority, summary, risk_score, issues) ==
  Obj(Field("id", id) \o Field("priority", priority) \o Field("summary", summary)
      \o Field("risk_score", risk_score) \o Field("issues", issues))

GoodIssue ==
  Obj(<< <<"text", Str("late fee")>>, <<"rationale", Str("fee rule")>>,
         <<"risk_category", Str("fees")>> >>)
SynonymIssue ==
  Obj(<< <<"text", Str("denied")>>, <<"reason", Str("why")>>,
         <<"category", Str("servicing")>> >>)

IdVals == {Undef, Str("m1"), Num(0)}

PriorityVals ==
  { Undef, Null, Str("urgent"), Str("URGENT"), Str("Low"), Str("medium"),
    Str("high"), Str(""), Num(5), Num(0), Bool(TRUE),
    Arr(<<Str("low")>>), Arr(<<Str("low"), Str("urgent")>>), Arr(<<Null, Str("low")>>),
    Obj(<<>>), Obj(<< <<"toString", Num(1)>> >>) }

SummaryVals ==
  { Undef, Null, Str(""), Str("Fee dispute"), Num(5), Num(0), Bool(TRUE),
    Bool(FALSE), Obj(<<>>), Arr(<<Str("a")>>) }

RiskVals ==
  { Undef, Null, Num(-5), Num(0), Num(1), Num(50), Num(100), Num(150),
    Str("80"), Bool(TRUE) }

IssuesVals ==
  { Undef, Null, Str("x"), Arr(<<>>), Arr(<<GoodIssue>>), Arr(<<SynonymIssue, Num(5)>>),
    Arr(<<Null>>), Arr([i \in 1..15 |-> GoodIssue]),
    Arr([i \in 1..11 |-> IF i = 11 THEN Null ELSE GoodIssue]) }

\* a well-formed element with one field varied at a time, and the elements
\* that are not objects
Items ==
    {MkItem(x, Str("low"), Str("ok"), Num(50), Arr(<<GoodIssue>>)) : x \in IdVals}
  \cup {MkItem(Str("m1"), x, Str("ok"), Num(50), Arr(<<GoodIssue>>)) : x \in PriorityVals}
  \cup {MkItem(Str("m1"), Str("low"), x, Num(50), Arr(<<GoodIssue>>)) : x \in SummaryVals}
  \cup {MkItem(Str("m1"), Str("low"), Str("ok"), x, Arr(<<GoodIssue>>)) : x \in RiskVals}
  \cup {MkItem(Str("m1"), Str("low"), Str("ok"), Num(50), x) : x \in IssuesVals}
  \cup {Null, Num(7), Str("text"), Bool(TRUE), Arr(<<Num(1)>>), Obj(<<>>),
        Obj(<< <<"priority", Str("Urgent")>>, <<"risk_score", Num(-5)>>,
               <<"summary", Num(5)>>, <<"extra", Str("x")>> >>)}

\* parsed values that are not arrays
NonArrays == {Null, Obj(<< <<"results", Arr(<<>>)>> >>), Str("[]"), Num(1)}

Complaint(i) ==
  CASE i % 3 = 1 -> Obj(<< <<"id", Str("c" \o IntToString(i))>>, <<"issue", Str("fees")>> >>)
    [] i % 3 = 2 -> Obj(<< <<"complaintId", Str("k" \o IntToString(i))>> >>)
    [] OTHER     -> Obj(<< <<"product", Str("loan")>> >>)

Batch(n) == [i \in 1..n |-> Complaint(i)]

NormBatches == {Batch(1), Batch(3)}

NormInit ==
  /\ normPc = "start"
  /\ \/ normRaw \in NonArrays
     \/ \E n \in 0..MaxRaw : \E q \in [1..n -> Items] : normRaw = Arr(q)
  /\ normBatch \in NormBatches
  /\ normOut = Undef
  /\ ExtIdle
  /\ ReqIdle

NormalizeStep ==
  /\ normPc = "start"
  /\ normPc' = "done"
  /\ normOut' = normalizeResults(normRaw, normBatch)
  /\ UNCHANGED <<normRaw, normBatch, extVars, reqVars>>

NormNext == NormalizeStep

SpecNorm == NormInit /\ [][NormNext]_vars

---------------------------------------------------------------------------
(* POST /analyze-complaints *)

Response(status, body) == [status |-> status, body |-> body]

RejectedInput == Response(400, [error |-> "Complaints (non-empty array) required."])
ConfigError   == Response(500, [error |-> "CLAUDE_API_KEY not configured on server."])
AnalysisFailed(detail) == Response(500, [error |-> "Analysis failed", detail |-> detail])
Unparseable(rawText) ==
  Response(502, [error |-> "Unable to parse AI response",
                 raw |-> SliceTo(rawText, ExcerptLen)])
Success(normalized) ==
  Response(200, [count |-> Len(normalized), results |-> normalized])

\* the guards without the credential check
ValidateBatchOnly(c, key) ==
  IF ~Truthy(c) \/ ~IsArr(c) \/ Len(c.v) = 0 THEN "reject" ELSE "call"

\* the two guards before the try block, in their order
Validate(c, key) ==
  IF ~Truthy(c) \/ ~IsArr(c) \/ Len(c.v) = 0 THEN "reject"
  ELSE IF ~key THEN "noconfig"
  ELSE "call"

\* the try block after the await, and the catch block: limited is the
\* closure's limitedComplaints, out the settlement of the provider call
\* (the provider's text is a string, or missing)
Reply(limited, out) ==
  IF out.kind = "error" THEN AnalysisFailed(out.message)
  ELSE LET rawText    == Or(out.text, Str(""))
           parsed     == extractJSON(rawText)
           normalized == normalizeResults(parsed, limited)
       IN  IF normalized.threw THEN AnalysisFailed("TypeError")
           ELSE IF Len(normalized.out) = 0 THEN Unparseable(rawText.v)
           ELSE Success(normalized.out)

InFlight(r) == pc[r] \in {"awaiting", "settled"}

\* one variable at module scope, written by every invocation: a resumed
\* invocation finds what the latest one still in flight left there
LimitedOfSharedSlot(r) ==
  limitedComplaints[CHOOSE q \in Requests :
                      InFlight(q) /\ \A q2 \in Requests : InFlight(q2) => q2 <= q]

\* the const of the invocation that serves request r
LimitedOf(r) == limitedComplaints[r]

\* the request arrives and the handler runs up to its await
Receive(r, c) ==
  /\ pc[r] = "idle"
  /\ complaints' = [complaints EXCEPT ![r] = c]
  /\ CASE Validate(c, CLAUDE_API_KEY) = "reject" ->
            /\ responses' = [responses EXCEPT ![r] = Append(@, RejectedInput)]
            /\ pc' = [pc EXCEPT ![r] = "done"]
            /\ UNCHANGED <<limitedComplaints, providerCalls>>
       [] Validate(c, CLAUDE_API_KEY) = "noconfig" ->
            /\ responses' = [responses EXCEPT ![r] = Append(@, ConfigError)]
            /\ pc' = [pc EXCEPT ![r] = "done"]
            /\ UNCHANGED <<limitedComplaints, providerCalls>>
       [] Validate(c, CLAUDE_API_KEY) = "call" ->
            /\ limitedComplaints' = [limitedComplaints EXCEPT ![r] = SliceTo(c.v, BatchCap)]
            /\ providerCalls' = [providerCalls EXCEPT ![r] = @ + 1]
            /\ pc' = [pc EXCEPT ![r] = "awaiting"]
            /\ UNCHANGED responses
  /\ UNCHANGED <<CLAUDE_API_KEY, outcome, extVars, normVars>>

\* the provider answers: text is response.data?.content?.[0]?.text
ProviderRespond(r, text) ==
  /\ pc[r] = "awaiting"
  /\ outcome' = [outcome EXCEPT ![r] = [kind |-> "response", text |-> text]]
  /\ pc' = [pc EXCEPT ![r] = "settled"]
  /\ UNCHANGED <<CLAUDE_API_KEY, complaints, limitedComplaints, providerCalls,
                 responses, extVars, normVars>>

\* the call is rejected: network error, non-2xx status, or the timeout
ProviderError(r, message) ==
  /\ pc[r] = "awaiting"
  /\ outcome' = [outcome EXCEPT ![r] = [kind |-> "error", message |-> message]]
  /\ pc' = [pc EXCEPT ![r] = "settled"]
  /\ UNCHANGED <<CLAUDE_API_KEY, complaints, limitedComplaints, providerCalls,
                 responses, extVars, normVars>>

\* a continuation that calls the provider again after a rejected call
ResumeWithRetry(r) ==
  /\ pc[r] = "settled"
  /\ IF outcome[r].kind = "error" /\ providerCalls[r] < 2
     THEN /\ providerCalls' = [providerCalls EXCEPT ![r] = @ + 1]
          /\ pc' = [pc EXCEPT ![r] = "awaiting"]
          /\ UNCHANGED responses
     ELSE /\ responses' = [responses EXCEPT ![r] = Append(@, Reply(LimitedOf(r), outcome[r]))]
          /\ pc' = [pc EXCEPT ![r] = "done"]
          /\ UNCHANGED providerCalls
  /\ UNCHANGED <<CLAUDE_API_KEY, complaints, limitedComplaints, outcome,
                 extVars, normVars>>

\* the handler resumes after the await and runs to its end
Resume(r) ==
  /\ pc[r] = "settled"
  /\ responses' = [responses EXCEPT ![r] = Append(@, Reply(LimitedOf(r), outcome[r]))]
  /\ pc' = [pc EXCEPT ![r] = "done"]
  /\ UNCHANGED <<CLAUDE_API_KEY, complaints, limitedComplaints, providerCalls,
                 outcome, extVars, normVars>>

TwoRowsText ==
  "[{\"id\":\"a\",\"priority\":\"URGENT\",\"summary\":\"Late fees\",\"risk_score\":150,"
  \o "\"issues\":[{\"text\":\"fee\",\"reason\":\"why\",\"category\":\"fees\"}]},"
  \o "{\"priority\":\"high\",\"summary\":5,\"risk_score\":-5}]"

ProviderTexts ==
  { Undef,
    Str(FencedText),
    Str(TwoRowsText),
    Str("no json here"),
    Str("[]"),
    Str("{\"id\":\"a\"}"),
    Str("[null]"),
    Str(Repeat("I cannot help. ", 70)) }

ProviderMessages ==
  {"timeout of 60000ms exceeded", "Request failed with status code 529"}

\* the complaints field of the request body; Undef when it is missing
Bodies ==
  { Undef, Str("x"), Obj(<<>>), Arr(<<>>), Arr(Batch(1)), Arr(Batch(BatchCap + 1)) }

Init ==
  /\ CLAUDE_API_KEY \in BOOLEAN
  /\ pc = [r \in Requests |-> "idle"]
  /\ complaints = [r \in Requests |-> Undef]
  /\ limitedComplaints = [r \in Requests |-> <<>>]
  /\ providerCalls = [r \in Requests |-> 0]
  /\ outcome = [r \in Requests |-> [kind |-> "none"]]
  /\ responses = [r \in Requests |-> <<>>]
  /\ ExtIdle
  /\ NormIdle

Next ==
  \E r \in Requests :
    \/ \E c \in Bodies : Receive(r, c)
    \/ \E text \in ProviderTexts : ProviderRespond(r, text)
    \/ \E message \in ProviderMessages : ProviderError(r, message)
    \/ Resume(r)

Spec == Init /\ [][Next]_vars

\* the same handler on fewer inputs, for the properties of progress
FairBodies == {Undef, Arr(<<>>), Arr(Batch(1))}
FairTexts  == {Undef, Str(FencedText), Str("no json here"), Str("[null]")}

FairNext ==
  \E r \in Requests :
    \/ \E c \in FairBodies : Receive(r, c)
    \/ \E text \in FairTexts : ProviderRespond(r, text)
    \/ \E message \in ProviderMessages : ProviderError(r, message)
    \/ Resume(r)

\* the change of position that Resume(r), and no other action, makes
Answering(r) == pc[r] = "settled" /\ pc' = [pc EXCEPT ![r] = "done"]

\* the event loop runs the continuation of every settled call: a step is an
\* Answering(r) step exactly when it is a Resume(r) step, so this is weak
\* fairness of Resume(r)
FairSpec ==
  /\ Init
  /\ [][FairNext]_vars
  /\ \A r \in Requests : WF_pc(Answering(r))

---------------------------------------------------------------------------
(* Properties of normalizeResults (SpecNorm) *)

NormReturned == normPc = "done" /\ ~normOut.threw
Rows == IF NormReturned THEN 1..Len(normOut.out) ELSE {}
RawItem(i) == normRaw.v[i]

\* C1: normalizeResults is total: for every parsed array, whatever its
\* elements are, it raises no error and returns a sequence no longer than
\* the parsed array.
C1_NormalizerTotal ==
  normPc = "done" /\ IsArr(normRaw) =>
    ~normOut.threw /\ Len(normOut.out) <= Len(normRaw.v)

EqualsIgnoreCase(s, a) ==
  Len(s) = Len(a) /\ \A i \in 1..Len(a) : LowerChar(CharAt(s, i)) = CharAt(a, i)

\* x is a spelling of a in any letter case, or an array holding nothing
\* but such a value
RECURSIVE Spells(_, _)
Spells(x, a) ==
  \/ IsStr(x) /\ EqualsIgnoreCase(x.v, a)
  \/ IsArr(x) /\ Len(x.v) = 1 /\ Spells(x.v[1], a)

\* C3 as claimed: every result's priority is urgent, medium or low, and a
\* model priority that is not exactly one of these three strings (wrong
\* case, non-string, absent) normalizes to medium.
C3_OutsideSetIsMedium ==
  \A i \in Rows :
    LET p == Get(RawItem(i), "priority") IN
    /\ IsStr(normOut.out[i].priority)
    /\ normOut.out[i].priority.v \in {"urgent", "medium", "low"}
    /\ ~(IsStr(p) /\ p.v \in {"urgent", "medium", "low"})
         => normOut.out[i].priority.v = "medium"

\* C3 as amended: every result's priority is urgent, medium or low; a model
\* priority that spells one of the three in any letter case (or is an array
\* holding just such a value) normalizes to that word in lower case, and
\* every other model priority normalizes to medium.
C3_PriorityClosedIgnoringCase ==
  \A i \in Rows :
    LET p == Get(RawItem(i), "priority") IN
    /\ IsStr(normOut.out[i].priority)
    /\ normOut.out[i].priority.v \in {"urgent", "medium", "low"}
    /\ \A a \in {"urgent", "medium", "low"} :
         Spells(p, a) => normOut.out[i].priority.v = a
    /\ (\A a \in {"urgent", "medium", "low"} : ~Spells(p, a))
         => normOut.out[i].priority.v = "medium"

C3_Witness ==
  \E i, j \in Rows :
    /\ IsStr(Get(RawItem(i), "priority"))
    /\ Get(RawItem(i), "priority").v = "URGENT"
    /\ normOut.out[i].priority.v = "urgent"
    /\ Get(RawItem(j), "priority").t = "number"
    /\ normOut.out[j].priority.v = "medium"

\* C4: every result's summary is a string: the model's summary when that is
\* a string, the empty string in every other case.
C4_SummaryIsString ==
  \A i \in Rows :
    LET x == Get(RawItem(i), "summary") IN
    /\ IsStr(normOut.out[i].summary)
    /\ IF IsStr(x) THEN normOut.out[i].summary.v = x.v
                   ELSE normOut.out[i].summary.v = ""

\* C5: every result's risk_score is null or a number in [0,100]: a numeric
\* model score below 0 becomes 0, above 100 becomes 100, inside the range is
\* unchanged, and a non-numeric or missing score becomes null.
C5_ScoreClamped ==
  \A i \in Rows :
    LET x == Get(RawItem(i), "risk_score")
        y == normOut.out[i].risk_score
    IN  /\ y.t = "null" \/ (IsNum(y) /\ 0 <= y.v /\ y.v <= 100)
        /\ IsNum(x) =>
             /\ IsNum(y)
             /\ x.v < 0 => y.v = 0
             /\ x.v > 100 => y.v = 100
             /\ (0 <= x.v /\ x.v <= 100) => y.v = x.v
        /\ ~IsNum(x) => y.t = "null"

C5_Witness ==
  \E i, j \in Rows :
    /\ IsNum(Get(RawItem(i), "risk_score"))
    /\ Get(RawItem(i), "risk_score").v = -5
    /\ normOut.out[i].risk_score.v = 0
    /\ IsNum(Get(RawItem(j), "risk_score"))
    /\ Get(RawItem(j), "risk_score").v = 150
    /\ normOut.out[j].risk_score.v = 100

---------------------------------------------------------------------------
(* Properties of extractJSON (SpecExtract) *)

\* a JSON object or array literal starts at position p of s
LiteralAt(s, p) == CharAt(s, p) \in {"[", "{"} /\ ParseValue(s, p).ok

FirstOf(P) == CHOOSE p \in P : \A q \in P : p <= q
LastOf(P)  == CHOOSE p \in P : \A q \in P : q <= p

Closer(c) == IF c = "{" THEN "}" ELSE "]"

\* the opening brackets that have a closing bracket of their kind after them
Opens(s) ==
  {p \in 1..Len(s) : /\ CharAt(s, p) \in {"{", "["}
                     /\ \E q \in (p + 1)..Len(s) : CharAt(s, q) = Closer(CharAt(s, p))}

---------------------------------------------------------------------------
(* Properties of the handler (Spec, FairSpec) *)

Answered(r) == pc[r] = "done" /\ Len(responses[r]) = 1
Resp(r) == responses[r][1]
ProviderAnswered(r) == Answered(r) /\ outcome[r].kind = "response"
TextOf(r) == Or(outcome[r].text, Str(""))
ParsedOf(r) == extractJSON(TextOf(r))
NumResults(r) == IF Resp(r).status = 200 THEN Len(Resp(r).body.results) ELSE 0

\* C2 as claimed: whenever the value extracted from the provider's text is
\* an array, the number of results produced equals the number of complaints
\* in the size-bounded input batch.
C2_OneResultPerInputRow ==
  \A r \in Requests :
    ProviderAnswered(r) /\ IsArr(ParsedOf(r)) =>
      NumResults(r) = Len(limitedComplaints[r])

\* C2 as amended: whenever a request is answered with the success object,
\* count and the number of results equal the number of elements of the
\* array extracted from the provider's text, each result keeping the
\* element of its position as raw, whatever the size of the input batch.
C2_ResultsFollowModelArray ==
  \A r \in Requests :
    Answered(r) /\ Resp(r).status = 200 =>
      /\ outcome[r].kind = "response"
      /\ LET parsed == ParsedOf(r) IN
         /\ IsArr(parsed)
         /\ Resp(r).body.count = Len(parsed.v)
         /\ Len(Resp(r).body.results) = Len(parsed.v)
         /\ \A i \in 1..Len(parsed.v) : Resp(r).body.results[i].raw = parsed.v[i]

C2_Witness ==
  \E r, q \in Requests :
    /\ Answered(r) /\ Resp(r).status = 200
    /\ Resp(r).body.count > Len(limitedComplaints[r])
    /\ Answered(q) /\ Resp(q).status = 200
    /\ Resp(q).body.count < Len(limitedComplaints[q])

\* C6: once the provider call has completed with a response, the request
\* is answered with the success object (count = number of results) if and
\* only if the normalized sequence is non-empty, and in every other case
\* with the 502 error whose raw field is the first 1000 characters of the
\* provider's text.
C6_SuccessOrUnparseable ==
  \A r \in Requests :
    ProviderAnswered(r) =>
      IF LET parsed == ParsedOf(r) IN IsArr(parsed) /\ Len(parsed.v) > 0
      THEN /\ Resp(r).status = 200
           /\ Resp(r).body.count = Len(Resp(r).body.results)
           /\ Resp(r).body.count > 0
      ELSE /\ Resp(r).status = 502
           /\ Resp(r).body.raw = SubSeq(TextOf(r).v, 1, Min(1000, Len(TextOf(r).v)))

BatchOK(c) == IsArr(c) /\ Len(c.v) >= 1

C9Inv ==
  \A r \in Requests :
    /\ providerCalls[r] <= 1
    /\ Len(responses[r]) <= 1
    /\ pc[r] = "done" <=> Len(responses[r]) = 1
    /\ pc[r] = "done" /\ outcome[r].kind = "error" =>
         /\ providerCalls[r] = 1
         /\ Resp(r).status = 500
         /\ Resp(r).body = [error |-> "Analysis failed", detail |-> outcome[r].message]

C9Step ==
  \A r \in Requests :
    /\ pc[r] = "settled" /\ pc'[r] # pc[r] =>
         /\ pc'[r] = "done"
         /\ providerCalls'[r] = providerCalls[r]
    /\ pc[r] = "done" =>
         /\ pc'[r] = "done"
         /\ responses'[r] = responses[r]
         /\ providerCalls'[r] = providerCalls[r]

\* C9: every request makes at most one provider call and sends exactly one
\* response: a provider error or timeout is answered with the 500 response
\* carrying the error detail by the very next step of the request, with no
\* further call; a response once sent is final; and every request whose
\* provider call has settled is eventually answered.
C9_OneCallOneResponse ==
  /\ []C9Inv
  /\ [][C9Step]_vars
  /\ \A r \in Requests : (pc[r] = "settled") ~> (pc[r] = "done")

C9_Witness ==
  \E r \in Requests :
    /\ Answered(r)
    /\ outcome[r].kind = "error"
    /\ outcome[r].message = "timeout of 60000ms exceeded"
    /\ Resp(r).status = 500
    /\ providerCalls[r] = 1

\* the response of a request that is served alone
AloneResponse(c, out, key) ==
  IF ~BatchOK(c) THEN RejectedInput
  ELSE IF ~key THEN ConfigError
  ELSE Reply(SubSeq(c.v, 1, Min(50, Len(c.v))), out)

C10Inv ==
  \A r \in Requests :
    pc[r] = "done" =>
      responses[r] = <<AloneResponse(complaints[r], outcome[r], CLAUDE_API_KEY)>>

C10Step ==
  \A r, q \in Requests :
    r # q /\ pc'[r] # pc[r] =>
      /\ pc'[q] = pc[q]
      /\ complaints'[q] = complaints[q]
      /\ limitedComplaints'[q] = limitedComplaints[q]
      /\ providerCalls'[q] = providerCalls[q]
      /\ outcome'[q] = outcome[q]
      /\ responses'[q] = responses[q]

\* C10: however the requests in flight interleave, the response to each
\* request is the one it would get if it were served alone, a function of
\* its own batch and its own provider outcome; and a step of one request
\* changes nothing that belongs to another request.
C10_RequestsIndependent == []C10Inv /\ [][C10Step]_vars

C10_Witness ==
  \E r, q \in Requests :
    /\ r < q
    /\ pc[r] = "settled" /\ outcome[r].kind = "response"
    /\ Answered(q) /\ Resp(q).status = 200
    /\ limitedComplaints[r] # limitedComplaints[q]
    /\ outcome[r] # outcome[q]

=============================================================================
